---- MODULE Spec2Model ----
(***************************************************************************)
(* A model of the ZipTie incremental clustering class (core/ziptie.py).    *)
(*                                                                         *)
(* The instance is one record, zt, whose fields carry the names of the     *)
(* attributes of the Python object.  Arrays are functions over 0..n-1 and  *)
(* matrices are functions over pairs <<row, col>>, so that indices read as *)
(* in the source.  Floating point values are fixed-point integers:         *)
(*   raw activities and cable_max   in units of 1/Unit,                    *)
(*   normalized activities          in units of 1/ActUnit,                 *)
(*   energies and thresholds        in units of 1/(ActUnit*ActUnit).       *)
(* Every public call (the constructor, step, get_index_projection, a read  *)
(* of bundles_full) is one action; last_call records the call, whether it  *)
(* raised, and what it returned.  The field printed of zt is the output    *)
(* the instance has written with its print statements, one tuple per line, *)
(* and fed is the set of cables that have been given a nonzero input.  The *)
(* field appends_kept_bounds of zt tells whether every append to the       *)
(* bundle map so far, those in the middle of a step included, wrote inside *)
(* the buffers and left them as increment_n_map_entries should.            *)
(***************************************************************************)
EXTENDS Integers, Sequences, FiniteSets, TLC

VARIABLES zt, last_call, nsteps, phase, fed

vars == <<zt, last_call, nsteps, phase, fed>>

(***************************************************************************)
(* Bounds of the model.                                                    *)
(***************************************************************************)
MaxSteps == 10
MaxQuerySteps == 6
MaxScheduleSteps == 34
MaxConstantSteps == 110
MaxGrowSteps == 30
Unit == 100000
ActUnit == 100

EnergyUnit == ActUnit * ActUnit

\* Arguments the constructor is called with.
Capacities == {-1, 0, 1, 2, 3}
Levels == {-1, 0}

\* Input vectors (raw activities) step() is called with, by capacity.
InputVectors(n) ==
    IF n = 3 THEN {<<1, 1>>, <<0, 1, 1>>, <<1, 1, 1>>}
    ELSE IF n = 2 THEN {<<1>>, <<1, 1>>, <<100, 1>>}
    ELSE IF n = 1 THEN {<< >>, <<1>>}
    ELSE {<< >>}

\* An input of k ones, used for the inputs longer than the capacity.
Ones(k) == [i \in 1..k |-> 1]

\* No instance has been constructed yet (or the constructor raised).
NoInstance == [max_num_cables |-> -1]

(***************************************************************************)
(* Program constants.                                                      *)
(***************************************************************************)
NucleationBase == 10
LevelFactor == 5
ActivityThresholdDen == 10
RateSlowDen == 10000
RateFastDen == 100
InitialMapSize == 8
\* tools.epsilon: the smallest positive quantity of the fixed-point grid.
epsilon == 1

(***************************************************************************)
(* Array helpers.                                                          *)
(***************************************************************************)
Zeros(n) == [i \in 0..(n - 1) |-> 0]

Zeros2(r, c) == [p \in (0..(r - 1)) \X (0..(c - 1)) |-> 0]

MinusOnes(n) == [i \in 0..(n - 1) |-> -1]

Size(a) == Cardinality(DOMAIN a)

MinOf(S) == CHOOSE m \in S : \A k \in S : m <= k

\* A 0-indexed array as a tuple, for results handed back to the caller.
AsTuple(a) == [i \in 1..Size(a) |-> a[i - 1]]

\* tools.pad(arr, size, val): arr followed by val up to the given size.
pad(arr, size, val) ==
    [i \in 0..(size - 1) |-> IF i \in DOMAIN arr THEN arr[i] ELSE val]

(***************************************************************************)
(* ZipTie.__init__                                                         *)
(***************************************************************************)
NucleationThreshold(level) ==
    IF level >= 0
    THEN NucleationBase * (LevelFactor ^ level) * EnergyUnit
    ELSE (NucleationBase * EnergyUnit) \div (LevelFactor ^ (0 - level))

\* np.zeros raises ValueError on a negative dimension.
InitRaises(num_cables, level) == num_cables < 0

ZipTieInit(num_cables, level) ==
    [ level                   |-> level,
      max_num_cables          |-> num_cables,
      max_num_bundles         |-> num_cables,
      size                    |-> num_cables,
      num_bundles             |-> 0,
      nucleation_threshold    |-> NucleationThreshold(level),
      agglomeration_threshold |-> NucleationThreshold(level) \div 2,
      activity_threshold      |-> ActUnit \div ActivityThresholdDen,
      bundles_full            |-> FALSE,
      bundle_activities       |-> Zeros(num_cables),
      cable_activities        |-> Zeros(num_cables),
      nonbundle_activities    |-> Zeros(0),
      cable_max               |-> Zeros(num_cables),
      bundle_map_size         |-> InitialMapSize,
      bundle_map_rows         |-> MinusOnes(InitialMapSize),
      bundle_map_cols         |-> MinusOnes(InitialMapSize),
      n_map_entries           |-> 0,
      agglomeration_energy    |-> Zeros2(num_cables, num_cables),
      nucleation_energy       |-> Zeros2(num_cables, num_cables),
      printed                 |-> << >>,
      appends_kept_bounds     |-> TRUE ]

IsInstance(z) == z.max_num_cables >= 0

(***************************************************************************)
(* ZipTie._normalize                                                       *)
(***************************************************************************)
\* The raw input vector as a 0-indexed fixed-point array.
Raw(x) == [i \in 0..(Len(x) - 1) |-> x[i + 1] * Unit]

\* The length of the elementwise combination of arrays of lengths k and n
\* under numpy's broadcasting rule, -1 when the lengths do not combine.
Broadcast(k, n) ==
    IF k = n THEN n ELSE IF k = 1 THEN n ELSE IF n = 1 THEN k ELSE -1

\* Element i of an array that takes part in a broadcast operation.
Elem(a, i) == IF Size(a) = 1 /\ i \notin DOMAIN a THEN a[0] ELSE a[i]

\* Inputs shorter than max_num_cables are padded.  A longer input reaches
\* "self.cable_max += (cable_activities - self.cable_max) * 1e-4", which
\* raises ValueError unless the right-hand side broadcasts into cable_max.
normalize_raises(z, x) ==
    LET k   == IF Len(x) < z.max_num_cables THEN z.max_num_cables ELSE Len(x)
        rhs == Broadcast(k, z.max_num_cables)
    IN  rhs = -1 \/ Broadcast(rhs, z.max_num_cables) # z.max_num_cables

\* np.minimum(0., .) followed by np.maximum(1., .)
Clamp_swapped(v) ==
    LET low == IF v < 0 THEN v ELSE 0
    IN  IF low > ActUnit THEN low ELSE ActUnit

Clamp(v) == IF v < 0 THEN 0 ELSE IF v > ActUnit THEN ActUnit ELSE v

\* The catch-up blend of cable_max toward activities above it.
catch_up(cm, act) ==
    IF act > cm THEN cm + ((act - cm) \div RateFastDen) ELSE cm

sparsify_inverted(z, v) == IF v > z.activity_threshold THEN 0 ELSE v

\* Sparsification of the normalized activities.
sparsify(z, v) == IF v < z.activity_threshold THEN 0 ELSE v

\* The instance after _normalize, with the value it returns assigned to
\* cable_activities (step, line 150).
normalize(z, x) ==
    LET n      == z.max_num_cables
        padded == IF Len(x) < n THEN pad(Raw(x), n, 0) ELSE Raw(x)
        cm1    == [i \in 0..(n - 1) |->
                     z.cable_max[i]
                       + ((Elem(padded, i) - z.cable_max[i]) \div RateSlowDen)]
        cm2    == [i \in 0..(n - 1) |-> catch_up(cm1[i], Elem(padded, i))]
        ratio  == [i \in 0..(n - 1) |->
                     (Elem(padded, i) * ActUnit) \div (cm2[i] + epsilon)]
        out    == [i \in 0..(n - 1) |-> sparsify(z, Clamp(ratio[i]))]
    IN  [z EXCEPT !.cable_max = cm2, !.cable_activities = out]

(***************************************************************************)
(* ZipTie._featurize                                                       *)
(***************************************************************************)
\* The logical entries of the bundle map.
Entries(z) == 0..(z.n_map_entries - 1)

\* The cables listed under bundle b in the logical entries.
Members(z, b) ==
    {z.bundle_map_cols[i] : i \in {j \in Entries(z) : z.bundle_map_rows[j] = b}}

\* nb.find_bundle_activities: the activity of a bundle is the minimum of
\* the activities of its cables; a row without entries keeps its value.
find_bundle_activities(z, cables, bundles) ==
    [b \in DOMAIN bundles |->
        IF Members(z, b) = {} THEN bundles[b]
        ELSE MinOf({cables[c] : c \in Members(z, b)})]

\* A logical entry names a row outside bundle_activities: the compiled
\* routine indexes the array out of bounds.
featurize_out_of_bounds(z) ==
    \E i \in Entries(z) : z.bundle_map_rows[i] \notin DOMAIN z.bundle_activities

featurize(z) ==
    LET zeros == Zeros(z.max_num_bundles)
        acts  == IF z.n_map_entries > 0
                 THEN find_bundle_activities(z, z.cable_activities, zeros)
                 ELSE zeros
        resid == [i \in DOMAIN z.cable_activities |->
                     sparsify(z, z.cable_activities[i])]
    IN  [z EXCEPT !.bundle_activities = acts, !.nonbundle_activities = resid]

\* _featurize when the out-of-bounds access raises: bundle_activities has
\* been reassigned, nonbundle_activities has not.
featurize_raised(z) ==
    [z EXCEPT !.bundle_activities =
        find_bundle_activities(z, z.cable_activities, Zeros(z.max_num_bundles))]

(***************************************************************************)
(* The numba helpers of the two engines.                                   *)
(***************************************************************************)
nucleation_energy_gather(nonbundle, energy) ==
    [p \in DOMAIN energy |-> energy[p] + nonbundle[p[1]] * nonbundle[p[2]]]

agglomeration_energy_gather(bundle_acts, nonbundle, n_bundles, energy) ==
    [p \in DOMAIN energy |->
        IF p[1] < n_bundles
        THEN energy[p] + bundle_acts[p[1]] * nonbundle[p[2]]
        ELSE energy[p]]

set_dense_val(array2d, z, val) ==
    [p \in DOMAIN array2d |->
        IF \E i \in Entries(z) :
              z.bundle_map_rows[i] = p[1] /\ z.bundle_map_cols[i] = p[2]
        THEN val ELSE array2d[p]]

\* nb.max_dense: a row-major scan that keeps the first strictly greater
\* entry; results is <<value, row, col>> and starts at <<-1, -1, -1>>.
RECURSIVE max_dense_scan(_, _, _, _, _)
max_dense_scan(array2d, nrows, ncols, k, results) ==
    IF k >= nrows * ncols THEN results
    ELSE LET i == k \div ncols
             j == k % ncols
         IN  max_dense_scan(array2d, nrows, ncols, k + 1,
                 IF array2d[<<i, j>>] > results[1]
                 THEN <<array2d[<<i, j>>], i, j>> ELSE results)

max_dense(array2d, nrows, ncols) ==
    max_dense_scan(array2d, nrows, ncols, 0, <<-1, -1, -1>>)

(***************************************************************************)
(* ZipTie.increment_n_map_entries                                          *)
(***************************************************************************)
\* The doubled buffers start empty instead of holding the old entries.
increment_n_map_entries_fresh_buffers(z) ==
    LET n == z.n_map_entries + 1
    IN  IF n >= z.bundle_map_size
        THEN [z EXCEPT !.n_map_entries   = n,
                       !.bundle_map_size = 2 * z.bundle_map_size,
                       !.bundle_map_rows = MinusOnes(2 * z.bundle_map_size),
                       !.bundle_map_cols = MinusOnes(2 * z.bundle_map_size)]
        ELSE [z EXCEPT !.n_map_entries = n]

\* "if self.n_map_entries > self.bundle_map_size": the buffers are doubled
\* one append too late.
increment_n_map_entries_late(z) ==
    LET n == z.n_map_entries + 1
    IN  IF n > z.bundle_map_size
        THEN [z EXCEPT !.n_map_entries   = n,
                       !.bundle_map_size = 2 * z.bundle_map_size,
                       !.bundle_map_rows =
                           pad(z.bundle_map_rows, 2 * z.bundle_map_size, -1),
                       !.bundle_map_cols =
                           pad(z.bundle_map_cols, 2 * z.bundle_map_size, -1)]
        ELSE [z EXCEPT !.n_map_entries = n]

increment_n_map_entries(z) ==
    LET n == z.n_map_entries + 1
    IN  IF n >= z.bundle_map_size
        THEN [z EXCEPT !.n_map_entries   = n,
                       !.bundle_map_size = 2 * z.bundle_map_size,
                       !.bundle_map_rows =
                           pad(z.bundle_map_rows, 2 * z.bundle_map_size, -1),
                       !.bundle_map_cols =
                           pad(z.bundle_map_cols, 2 * z.bundle_map_size, -1)]
        ELSE [z EXCEPT !.n_map_entries = n]

\* 8, 16, 32, ...: the initial size of the buffers times a power of two.
RECURSIVE IsMapSize(_)
IsMapSize(n) ==
    \/ n = InitialMapSize
    \/ n > InitialMapSize /\ n % 2 = 0 /\ IsMapSize(n \div 2)

\* What one append of <<row, col>> that takes the instance from z to r has
\* to satisfy: the write at n_map_entries was inside both buffers, and
\* afterwards n_map_entries is below bundle_map_size, the buffers have that
\* length, and the entries written so far are where they were.
AppendKeepsBounds(z, row, col, r) ==
    /\ z.n_map_entries \in DOMAIN z.bundle_map_rows
    /\ z.n_map_entries \in DOMAIN z.bundle_map_cols
    /\ r.n_map_entries = z.n_map_entries + 1
    /\ r.n_map_entries < r.bundle_map_size
    /\ IsMapSize(r.bundle_map_size)
    /\ DOMAIN r.bundle_map_rows = 0..(r.bundle_map_size - 1)
    /\ DOMAIN r.bundle_map_cols = 0..(r.bundle_map_size - 1)
    /\ \A i \in Entries(z) :
          /\ r.bundle_map_rows[i] = z.bundle_map_rows[i]
          /\ r.bundle_map_cols[i] = z.bundle_map_cols[i]
    /\ r.bundle_map_rows[z.n_map_entries] = row
    /\ r.bundle_map_cols[z.n_map_entries] = col

\* bundle_map_rows[n_map_entries] = row; bundle_map_cols[n_map_entries] =
\* col; increment_n_map_entries().
append_entry(z, row, col) ==
    LET r == increment_n_map_entries(
                 [z EXCEPT !.bundle_map_rows[z.n_map_entries] = row,
                           !.bundle_map_cols[z.n_map_entries] = col])
    IN  [r EXCEPT !.appends_kept_bounds =
                      z.appends_kept_bounds
                      /\ AppendKeepsBounds(z, row, col, r)]

\* "self.num_bundles += 1"
increment_num_bundles_skipped(z) == z

increment_num_bundles(z) == [z EXCEPT !.num_bundles = z.num_bundles + 1]

\* "if self.num_bundles == self.max_num_bundles: self.bundles_full = True"
check_capacity(z) ==
    IF z.num_bundles = z.max_num_bundles
    THEN [z EXCEPT !.bundles_full = TRUE] ELSE z

\* The print statements of lines 256-259 and 329-332, as tuples
\* <<text, str(num_bundles), first index, second index>>.
print_line(z, text, first, second) ==
    [z EXCEPT !.printed = Append(z.printed,
                                 <<text, z.num_bundles, first, second>>)]

(***************************************************************************)
(* ZipTie._create_new_bundles                                              *)
(***************************************************************************)
\* The reset without the agglomeration columns of lines 271-272.
nucleation_reset_keep_agglomeration(z, a, b) ==
    [z EXCEPT
        !.nucleation_energy =
            [p \in DOMAIN z.nucleation_energy |->
                IF p[1] \in {a, b} \/ p[2] \in {a, b}
                THEN 0 ELSE z.nucleation_energy[p]]]

\* Lines 265-272: the reset after a nucleation of cables a and b.
nucleation_reset(z, a, b) ==
    [z EXCEPT
        !.nucleation_energy =
            [p \in DOMAIN z.nucleation_energy |->
                IF p[1] \in {a, b} \/ p[2] \in {a, b}
                THEN 0 ELSE z.nucleation_energy[p]],
        !.agglomeration_energy =
            [p \in DOMAIN z.agglomeration_energy |->
                IF p[2] \in {a, b} THEN 0 ELSE z.agglomeration_energy[p]]]

nucleation_accumulate_keep_diagonal(z) ==
    nucleation_energy_gather(z.nonbundle_activities, z.nucleation_energy)

\* Lines 232-238: accumulate, then clear the diagonal.
nucleation_accumulate(z) ==
    LET gathered == nucleation_energy_gather(z.nonbundle_activities,
                                             z.nucleation_energy)
    IN  [p \in DOMAIN gathered |-> IF p[1] = p[2] THEN 0 ELSE gathered[p]]

\* The second entry written with cable_index_a again.
create_new_bundles_same_cable(z) ==
    LET z1      == [z EXCEPT !.nucleation_energy = nucleation_accumulate(z)]
        results == max_dense(z1.nucleation_energy,
                             z.max_num_cables, z.max_num_cables)
        max_energy    == results[1]
        cable_index_a == results[2]
        cable_index_b == results[3]
    IN  IF max_energy > z.nucleation_threshold
        THEN LET z2 == append_entry(z1, z1.num_bundles, cable_index_a)
                 z3 == append_entry(z2, z2.num_bundles, cable_index_a)
                 z4 == print_line(increment_num_bundles(z3),
                                  "added with cables",
                                  cable_index_a, cable_index_b)
             IN  nucleation_reset(check_capacity(z4),
                                  cable_index_a, cable_index_b)
        ELSE z1

create_new_bundles(z) ==
    LET z1      == [z EXCEPT !.nucleation_energy = nucleation_accumulate(z)]
        results == max_dense(z1.nucleation_energy,
                             z.max_num_cables, z.max_num_cables)
        max_energy    == results[1]
        cable_index_a == results[2]
        cable_index_b == results[3]
    IN  IF max_energy > z.nucleation_threshold
        THEN LET z2 == append_entry(z1, z1.num_bundles, cable_index_a)
                 z3 == append_entry(z2, z2.num_bundles, cable_index_b)
                 z4 == print_line(increment_num_bundles(z3),
                                  "added with cables",
                                  cable_index_a, cable_index_b)
             IN  nucleation_reset(check_capacity(z4),
                                  cable_index_a, cable_index_b)
        ELSE z1

(***************************************************************************)
(* ZipTie._grow_bundles                                                    *)
(***************************************************************************)
\* Lines 317-322: copy the entries of bundle_index under the new index;
\* range(self.n_map_entries) is taken once, before the loop (n0).
RECURSIVE copy_bundle(_, _, _, _)
copy_bundle(z, bundle_index, i, n0) ==
    IF i >= n0 THEN z
    ELSE copy_bundle(
             IF z.bundle_map_rows[i] = bundle_index
             THEN append_entry(z, z.num_bundles, z.bundle_map_cols[i])
             ELSE z,
             bundle_index, i + 1, n0)

\* The reset without the donor's row of lines 346-347.
agglomeration_reset_keep_row(z, bundle_index, cable_index) ==
    [z EXCEPT
        !.nucleation_energy =
            [p \in DOMAIN z.nucleation_energy |->
                IF p[1] = cable_index \/ p[2] = cable_index
                THEN 0 ELSE z.nucleation_energy[p]],
        !.agglomeration_energy =
            [p \in DOMAIN z.agglomeration_energy |->
                IF p[2] = cable_index
                THEN 0 ELSE z.agglomeration_energy[p]]]

\* Lines 338-347: the reset after bundle_index has absorbed cable_index.
agglomeration_reset(z, bundle_index, cable_index) ==
    [z EXCEPT
        !.nucleation_energy =
            [p \in DOMAIN z.nucleation_energy |->
                IF p[1] = cable_index \/ p[2] = cable_index
                THEN 0 ELSE z.nucleation_energy[p]],
        !.agglomeration_energy =
            [p \in DOMAIN z.agglomeration_energy |->
                IF p[2] = cable_index \/ p[1] = bundle_index
                THEN 0 ELSE z.agglomeration_energy[p]]]

\* The accumulation without the mask of lines 300-306.
agglomeration_accumulate_unmasked(z) ==
    agglomeration_energy_gather(z.bundle_activities, z.nonbundle_activities,
                                z.num_bundles, z.agglomeration_energy)

\* Lines 293-306: accumulate, then mask the memberships.
agglomeration_accumulate(z) ==
    LET gathered == agglomeration_energy_gather(z.bundle_activities,
                        z.nonbundle_activities, z.num_bundles,
                        z.agglomeration_energy)
    IN  IF z.n_map_entries > 0 THEN set_dense_val(gathered, z, 0)
        ELSE gathered

\* The copy loop started at entry 1 instead of entry 0.
grow_bundles_partial_copy(z) ==
    LET z1      == [z EXCEPT !.agglomeration_energy =
                                 agglomeration_accumulate(z)]
        results == max_dense(z1.agglomeration_energy,
                             z.max_num_bundles, z.max_num_cables)
        max_energy   == results[1]
        bundle_index == results[2]
        cable_index  == results[3]
    IN  IF max_energy > z.agglomeration_threshold
        THEN LET z2 == copy_bundle(z1, bundle_index, 1, z1.n_map_entries)
                 z3 == append_entry(z2, z2.num_bundles, cable_index)
                 z4 == print_line(increment_num_bundles(z3),
                                  "added: bundle and cable",
                                  bundle_index, cable_index)
             IN  agglomeration_reset(check_capacity(z4),
                                     bundle_index, cable_index)
        ELSE z1

\* Without the copy loop of lines 317-322.
grow_bundles_without_copy(z) ==
    LET z1      == [z EXCEPT !.agglomeration_energy =
                                 agglomeration_accumulate(z)]
        results == max_dense(z1.agglomeration_energy,
                             z.max_num_bundles, z.max_num_cables)
        max_energy   == results[1]
        bundle_index == results[2]
        cable_index  == results[3]
    IN  IF max_energy > z.agglomeration_threshold
        THEN LET z2 == z1
                 z3 == append_entry(z2, z2.num_bundles, cable_index)
                 z4 == print_line(increment_num_bundles(z3),
                                  "added: bundle and cable",
                                  bundle_index, cable_index)
             IN  agglomeration_reset(check_capacity(z4),
                                     bundle_index, cable_index)
        ELSE z1

grow_bundles(z) ==
    LET z1      == [z EXCEPT !.agglomeration_energy =
                                 agglomeration_accumulate(z)]
        results == max_dense(z1.agglomeration_energy,
                             z.max_num_bundles, z.max_num_cables)
        max_energy   == results[1]
        bundle_index == results[2]
        cable_index  == results[3]
    IN  IF max_energy > z.agglomeration_threshold
        THEN LET z2 == copy_bundle(z1, bundle_index, 0, z1.n_map_entries)
                 z3 == append_entry(z2, z2.num_bundles, cable_index)
                 z4 == print_line(increment_num_bundles(z3),
                                  "added: bundle and cable",
                                  bundle_index, cable_index)
             IN  agglomeration_reset(check_capacity(z4),
                                     bundle_index, cable_index)
        ELSE z1

(***************************************************************************)
(* ZipTie._learn and ZipTie.step                                           *)
(***************************************************************************)
learn_unguarded(z) == grow_bundles(create_new_bundles(z))

learn_recheck(z) ==
    LET z0 == [z EXCEPT !.bundles_full =
                            (z.num_bundles = z.max_num_bundles)]
    IN  IF ~z0.bundles_full THEN grow_bundles(create_new_bundles(z0)) ELSE z0

\* _create_new_bundles called again while a pair is over the threshold.
learn_nucleate_twice(z) ==
    IF ~z.bundles_full
    THEN grow_bundles(create_new_bundles(create_new_bundles(z)))
    ELSE z

learn(z) ==
    IF ~z.bundles_full THEN grow_bundles(create_new_bundles(z)) ELSE z

\* The outcomes of the out-of-bounds access in _featurize.
OutOfBoundsOutcomes == {"raise", "ignore"}

\* The result of one call of step: the instance after it, whether it
\* raised, and the value returned.
step(z, x, oob) ==
    IF normalize_raises(z, x)
    THEN [z |-> z, raised |-> TRUE, result |-> << >>]
    ELSE LET z1 == normalize(z, x)
         IN  IF featurize_out_of_bounds(z1) /\ oob = "raise"
             THEN [z |-> featurize_raised(z1), raised |-> TRUE,
                   result |-> << >>]
             ELSE LET z2 == learn(featurize(z1))
                  IN  [z |-> z2, raised |-> FALSE,
                       result |-> AsTuple(z2.bundle_activities)]

(***************************************************************************)
(* ZipTie.get_index_projection                                             *)
(***************************************************************************)
RECURSIVE projection_scan(_, _, _, _)
projection_scan(z, bundle_index, i, projection) ==
    IF i >= z.n_map_entries THEN projection
    ELSE projection_scan(z, bundle_index, i + 1,
             IF z.bundle_map_rows[i] = bundle_index
             THEN [projection EXCEPT ![z.bundle_map_cols[i]] = 1]
             ELSE projection)

get_index_projection_skip_first(z, bundle_index) ==
    projection_scan(z, bundle_index, 1, Zeros(z.max_num_cables))

get_index_projection(z, bundle_index) ==
    projection_scan(z, bundle_index, 0, Zeros(z.max_num_cables))

\* The effect of a call of get_index_projection: the instance after it and
\* the value returned.
project_aliasing(z, bundle_index) ==
    [z |-> [z EXCEPT !.cable_activities =
                         get_index_projection(z, bundle_index)],
     result |-> AsTuple(get_index_projection(z, bundle_index))]

project(z, bundle_index) ==
    [z |-> z, result |-> AsTuple(get_index_projection(z, bundle_index))]

\* A read of the attribute bundles_full.
is_full(z) == z.bundles_full

(***************************************************************************)
(* The calls, as actions.                                                  *)
(***************************************************************************)
Call(op, arg, raised, result) ==
    [op |-> op, arg |-> arg, raised |-> raised, result |-> result]

Init ==
    /\ zt = NoInstance
    /\ last_call = Call("none", << >>, FALSE, << >>)
    /\ nsteps = 0
    /\ phase = 0
    /\ fed = {}

\* ZipTie(num_cables, level=level)
New ==
    /\ last_call.op = "none"
    /\ \E num_cables \in Capacities, level \in Levels :
          /\ zt' = IF InitRaises(num_cables, level) THEN NoInstance
                   ELSE ZipTieInit(num_cables, level)
          /\ last_call' = Call("new", <<num_cables, level>>,
                               InitRaises(num_cables, level), << >>)
    /\ UNCHANGED <<nsteps, phase, fed>>

\* The cables that x gives a nonzero activity.
Fed(z, x) ==
    {i \in 0..(z.max_num_cables - 1) : i < Len(x) /\ x[i + 1] # 0}

\* zt.step(x)
StepWith(x) ==
    /\ IsInstance(zt)
    /\ \E oob \in IF featurize_out_of_bounds(zt) THEN OutOfBoundsOutcomes
                  ELSE {"ignore"} :
          LET r == step(zt, x, oob)
          IN  /\ zt' = r.z
              /\ last_call' = Call("step", x, r.raised, r.result)
              /\ nsteps' = IF r.z = zt THEN nsteps ELSE nsteps + 1
    /\ fed' = IF normalize_raises(zt, x) THEN fed ELSE fed \cup Fed(zt, x)
    /\ UNCHANGED phase

\* A step with an input that fits the capacity.
Step ==
    /\ nsteps < MaxSteps
    /\ \E x \in InputVectors(zt.max_num_cables) : StepWith(x)

\* A step with an input longer than the capacity.
StepTooLong ==
    /\ nsteps < MaxSteps
    /\ \E k \in 1..4 : k > zt.max_num_cables /\ StepWith(Ones(k))

Next == New \/ Step \/ StepTooLong

Spec == Init /\ [][Next]_vars

(***************************************************************************)
(* The read-only queries, explored over shorter runs.                      *)
(***************************************************************************)
\* zt.get_index_projection(b)
GetIndexProjection ==
    /\ IsInstance(zt)
    /\ \E b \in (-1)..zt.max_num_bundles :
          LET r == project(zt, b)
          IN  /\ zt' = r.z
              /\ last_call' = Call("get_index_projection", <<b>>, FALSE,
                                   r.result)
    /\ UNCHANGED <<nsteps, phase, fed>>

\* zt.bundles_full
ReadBundlesFull ==
    /\ IsInstance(zt)
    /\ last_call' = Call("bundles_full", << >>, FALSE, <<is_full(zt)>>)
    /\ UNCHANGED <<zt, nsteps, phase, fed>>

QueryStep ==
    /\ nsteps < MaxQuerySteps
    /\ \E x \in InputVectors(zt.max_num_cables) : StepWith(x)

QueryNext == New \/ QueryStep \/ GetIndexProjection \/ ReadBundlesFull

SpecQuery == Init /\ [][QueryNext]_vars

(***************************************************************************)
(* A level-0 instance of capacity 3 driven through a schedule of inputs:   *)
(* each input of the schedule is fed any number of times, in order.        *)
(***************************************************************************)
Schedule == << <<0, 1, 1>>, <<1, 1, 1>> >>

InitSchedule ==
    /\ zt = ZipTieInit(3, 0)
    /\ last_call = Call("new", <<3, 0>>, FALSE, << >>)
    /\ nsteps = 0
    /\ phase = 1
    /\ fed = {}

ScheduleStep ==
    /\ nsteps < MaxScheduleSteps
    /\ StepWith(Schedule[phase])

ScheduleAdvance ==
    /\ phase < Len(Schedule)
    /\ phase' = phase + 1
    /\ UNCHANGED <<zt, last_call, nsteps, fed>>

ScheduleNext == ScheduleStep \/ ScheduleAdvance

SpecSchedule == InitSchedule /\ [][ScheduleNext]_vars

\* A level-0 instance of capacity 4 fed [1,1,0,0], then [1,1,1,0], then
\* [1,1,1,1], each for any number of steps: bundle {0,1} nucleates, then
\* grows by agglomeration until the map buffers have to be doubled.
GrowSchedule == << <<1, 1, 0, 0>>, <<1, 1, 1, 0>>, <<1, 1, 1, 1>> >>

InitGrow ==
    /\ zt = ZipTieInit(4, 0)
    /\ last_call = Call("new", <<4, 0>>, FALSE, << >>)
    /\ nsteps = 0
    /\ phase = 1
    /\ fed = {}

GrowStep ==
    /\ nsteps < MaxGrowSteps
    /\ StepWith(GrowSchedule[phase])

GrowAdvance ==
    /\ phase < Len(GrowSchedule)
    /\ phase' = phase + 1
    /\ UNCHANGED <<zt, last_call, nsteps, fed>>

GrowNext == GrowStep \/ GrowAdvance

SpecGrow == InitGrow /\ [][GrowNext]_vars

(***************************************************************************)
(* A level-0 instance of capacity 4 fed the constant vector [1, 1, 0, 0],   *)
(* MaxConstantSteps times.                                                 *)
(***************************************************************************)
ConstantInput == <<1, 1, 0, 0>>

InitConstant ==
    /\ zt = ZipTieInit(4, 0)
    /\ last_call = Call("new", <<4, 0>>, FALSE, << >>)
    /\ nsteps = 0
    /\ phase = 0
    /\ fed = {}

ConstantStep ==
    /\ nsteps < MaxConstantSteps
    /\ StepWith(ConstantInput)

SpecConstant == InitConstant /\ [][ConstantStep]_vars

(***************************************************************************)
(* Properties.                                                             *)
(***************************************************************************)
Full(z) == IsInstance(z) /\ z.bundles_full

\* The fields the two engines own.
LearnedState(z) ==
    <<z.num_bundles, z.n_map_entries, z.bundle_map_size, z.bundle_map_rows,
      z.bundle_map_cols, z.nucleation_energy, z.agglomeration_energy>>

\* The 0/1 indicator of a set of cables, as a tuple.
Indicator(z, S) ==
    [i \in 1..z.max_num_cables |-> IF (i - 1) \in S THEN 1 ELSE 0]

\* The lines printed between two states of the instance, and those of them
\* that report a nucleation or an agglomeration.
Printed(z0, z1) == SubSeq(z1.printed, Len(z0.printed) + 1, Len(z1.printed))

Nucleations(z0, z1) ==
    {l \in {Printed(z0, z1)[k] : k \in 1..Len(Printed(z0, z1))} :
        l[1] = "added with cables"}

Agglomerations(z0, z1) ==
    {l \in {Printed(z0, z1)[k] : k \in 1..Len(Printed(z0, z1))} :
        l[1] = "added: bundle and cable"}

\* The last step created the newest bundle: the bundle is reported by the
\* last printed line with the given text and it was not yet in the map
\* when the step featurized, so its activity is 0 although every member
\* cable is active.
JustCreated(z, text) ==
    /\ IsInstance(z)
    /\ Len(z.printed) >= 1
    /\ z.num_bundles <= z.max_num_bundles
    /\ LET l == z.printed[Len(z.printed)]
       IN  /\ l[1] = text
           /\ l[2] = z.num_bundles
           /\ z.bundle_activities[l[2] - 1] = 0
           /\ \A m \in Members(z, l[2] - 1) : z.cable_activities[m] > 0

\* C1: across every step() num_bundles does not decrease and it never
\* exceeds max_num_bundles.
C1_NumBundlesBounded ==
    [][IsInstance(zt) /\ IsInstance(zt')
          => /\ zt'.num_bundles >= zt.num_bundles
             /\ zt'.num_bundles <= zt'.max_num_bundles]_vars

\* C2: once bundles_full is true at the end of a step it is true at the end
\* of every later step.
C2_FullIsOneWay == [][Full(zt) => Full(zt')]_vars

C2_Witness ==
    /\ Full(zt)
    /\ last_call.op = "step"
    /\ \A b \in DOMAIN zt.bundle_activities : zt.bundle_activities[b] > 0

\* C3: a step() that starts with bundles_full true leaves num_bundles,
\* n_map_entries, the bundle map and both energy matrices unchanged.
C3_FullStepFrame ==
    [][Full(zt) /\ last_call'.op = "step"
          => LearnedState(zt') = LearnedState(zt)]_vars

\* The last bundle was already in the map when this step featurized, so the
\* step started at capacity.
C3_Witness ==
    /\ Full(zt)
    /\ last_call.op = "step"
    /\ ~last_call.raised
    /\ zt.num_bundles = zt.max_num_bundles
    /\ zt.num_bundles >= 3
    /\ zt.bundle_activities[zt.num_bundles - 1] > 0
    /\ zt.cable_max # Zeros(zt.max_num_cables)

\* C4: every logical bundle map entry has a bundle index in
\* 0..num_bundles-1.
C4_EntryRowsInRange ==
    IsInstance(zt) =>
        \A i \in Entries(zt) :
            zt.bundle_map_rows[i] >= 0
            /\ zt.bundle_map_rows[i] < zt.num_bundles

C4_Witness ==
    /\ IsInstance(zt)
    /\ zt.num_bundles >= 3
    /\ zt.n_map_entries >= 7
    /\ \E i \in Entries(zt) : zt.bundle_map_rows[i] = zt.num_bundles - 1

\* C5: step() with an input longer than max_num_cables raises and leaves
\* the whole instance unchanged.
C5_TooLongInputFails ==
    [][IsInstance(zt) /\ last_call'.op = "step"
          /\ Len(last_call'.arg) > zt.max_num_cables
          => last_call'.raised /\ zt' = zt]_vars

\* C6: the constructor called with max_cables <= 0 or level < 0 fails and
\* returns no instance.
C6_BadConfigurationFails ==
    last_call.op = "new" /\ (last_call.arg[1] <= 0 \/ last_call.arg[2] < 0)
        => last_call.raised /\ ~IsInstance(zt)

\* C7: the diagonal of nucleation_energy is zero at every step boundary.
C7_NucleationDiagonalZero ==
    IsInstance(zt) =>
        \A i \in 0..(zt.max_num_cables - 1) :
            zt.nucleation_energy[<<i, i>>] = 0

C7_Witness ==
    /\ IsInstance(zt)
    /\ last_call.op = "step"
    /\ \E i \in DOMAIN zt.nonbundle_activities :
          zt.nonbundle_activities[i] > 0
    /\ \E p \in DOMAIN zt.nucleation_energy : zt.nucleation_energy[p] > 0

\* C8: get_index_projection(b) returns a 0/1 vector of length
\* max_num_cables that is 1 exactly at the cables listed under b in the
\* logical entries, so its number of ones is the number of distinct cables
\* of b.
C8_ProjectionIsMembership ==
    last_call.op = "get_index_projection" =>
        LET b == last_call.arg[1]
            r == last_call.result
        IN  /\ Len(r) = zt.max_num_cables
            /\ r = Indicator(zt, Members(zt, b))
            /\ Cardinality({i \in 1..Len(r) : r[i] = 1})
                 = Cardinality(Members(zt, b))

C8_Witness ==
    /\ last_call.op = "get_index_projection"
    /\ Cardinality(Members(zt, last_call.arg[1])) = 3
    /\ zt.n_map_entries < zt.bundle_map_size
    /\ zt.bundle_map_rows[zt.n_map_entries] = -1

\* C9: get_index_projection and the read of bundles_full change no field
\* of the instance, and asking again returns the same result.
C9_QueriesArePure ==
    [][/\ last_call'.op = "get_index_projection"
          => /\ zt' = zt
             /\ last_call'.result
                  = AsTuple(get_index_projection(zt', last_call'.arg[1]))
       /\ last_call'.op = "bundles_full"
          => /\ zt' = zt
             /\ last_call'.result = <<is_full(zt')>>]_vars

C9_Witness ==
    /\ last_call.op = "get_index_projection"
    /\ zt.num_bundles >= 2
    /\ \E i \in 1..Len(last_call.result) : last_call.result[i] = 1
    /\ \E i \in DOMAIN zt.cable_activities : zt.cable_activities[i] = 0

\* C10: a fresh level-0 instance of capacity 4 fed [1, 1, 0, 0] over and
\* over eventually has a bundle whose members are exactly cables 0 and 1:
\* when the run of MaxConstantSteps steps ends, that bundle is in the map.
HasBundle01 ==
    \E b \in 0..(zt.num_bundles - 1) : Members(zt, b) = {0, 1}

C10_ConstantInputNucleates == nsteps = MaxConstantSteps => HasBundle01

C10_Witness ==
    /\ HasBundle01
    /\ nsteps = MaxConstantSteps
    /\ zt.level = 0
    /\ zt.max_num_cables = 4
    /\ last_call = Call("step", ConstantInput, FALSE,
                        AsTuple(zt.bundle_activities))

\* C11: a cable whose input has been zero in every step so far is a member
\* of no bundle.
C11_UnfedCablesUnbundled ==
    IsInstance(zt) =>
        \A i \in Entries(zt) : zt.bundle_map_cols[i] \in fed

C11_Witness ==
    /\ IsInstance(zt)
    /\ last_call.op = "step"
    /\ zt.num_bundles >= 2
    /\ \E c \in 0..(zt.max_num_cables - 1) : c \notin fed
    /\ \E c \in fed : zt.cable_activities[c] > 0

\* C12: when agglomeration fires for donor bundle d and cable c, the new
\* bundle's index is num_bundles just before the event (an index no entry
\* used before) and its members are exactly the donor's members and c.
C12_AgglomerationCopiesDonor ==
    [][IsInstance(zt) /\ IsInstance(zt')
          => \A l \in Agglomerations(zt, zt') :
                LET n == l[2] - 1
                    d == l[3]
                    c == l[4]
                IN  /\ n = zt.num_bundles
                             + Cardinality(Nucleations(zt, zt'))
                    /\ Members(zt, n) = {}
                    /\ Members(zt', n) = Members(zt, d) \cup {c}]_vars

C12_Witness ==
    /\ IsInstance(zt)
    /\ last_call.op = "step"
    /\ zt.num_bundles <= zt.max_num_bundles
    /\ Len(zt.printed) >= 2
    /\ LET l == zt.printed[Len(zt.printed)]
       IN  /\ l[1] = "added: bundle and cable"
           /\ l[2] = zt.num_bundles
           /\ Cardinality(Members(zt, l[3])) = 2
           /\ Cardinality(Members(zt, l[2] - 1)) = 3

\* C13: the member set of a bundle that exists at a step boundary, and the
\* projection get_index_projection returns for it, is the same at the next
\* step boundary, hence at every later one.
C13_MembershipImmutable ==
    [][IsInstance(zt) /\ IsInstance(zt') /\ last_call'.op # "new"
          => \A b \in 0..(zt.num_bundles - 1) :
                /\ Members(zt', b) = Members(zt, b)
                /\ get_index_projection(zt', b)
                     = get_index_projection(zt, b)]_vars

\* The buffers have been doubled, the bundle that was the donor of the
\* first agglomeration has been a donor, and capacity is not exceeded.
C13_Witness ==
    /\ IsInstance(zt)
    /\ last_call.op = "step"
    /\ zt.bundle_map_size = 2 * InitialMapSize
    /\ zt.n_map_entries > InitialMapSize
    /\ zt.num_bundles <= zt.max_num_bundles
    /\ \E k \in 1..Len(zt.printed) :
          /\ zt.printed[k][1] = "added: bundle and cable"
          /\ Cardinality(Members(zt, zt.printed[k][3])) = 2

\* C14: one step() has at most one nucleation and at most one
\* agglomeration: num_bundles grows by the number of events, at most 2; a
\* nucleation appends two entries and an agglomeration appends one entry
\* per member of the donor and one more.
C14_OneEventOfEachKind ==
    [][IsInstance(zt) /\ IsInstance(zt') /\ last_call'.op = "step"
          => LET nu == Nucleations(zt, zt')
                 ag == Agglomerations(zt, zt')
                 copied == IF ag = {} THEN 0
                           ELSE LET l == CHOOSE l \in ag : TRUE
                                IN  Cardinality(Members(zt, l[3])) + 1
             IN  /\ Len(Printed(zt, zt')) = Cardinality(nu) + Cardinality(ag)
                 /\ Cardinality(nu) <= 1
                 /\ Cardinality(ag) <= 1
                 /\ zt'.num_bundles - zt.num_bundles
                      = Cardinality(nu) + Cardinality(ag)
                 /\ zt'.num_bundles - zt.num_bundles <= 2
                 /\ zt'.n_map_entries - zt.n_map_entries
                      = 2 * Cardinality(nu) + copied]_vars

\* A nucleation has just fired and left a second pair of cables over the
\* threshold.
C14_Witness ==
    /\ IsInstance(zt)
    /\ last_call.op = "step"
    /\ Len(zt.printed) >= 1
    /\ zt.printed[Len(zt.printed)][1] = "added with cables"
    /\ zt.printed[Len(zt.printed)][2] = zt.num_bundles
    /\ zt.n_map_entries = 2
    /\ ~zt.bundles_full
    /\ \E p \in DOMAIN zt.nucleation_energy :
          zt.nucleation_energy[p] >= zt.nucleation_threshold

\* C15: at every step boundary bundles_full is true exactly when
\* num_bundles equals max_num_bundles.
C15_FullExactlyAtCapacity ==
    IsInstance(zt) =>
        (zt.bundles_full <=> zt.num_bundles = zt.max_num_bundles)

\* C16: at every step boundary each bundle below num_bundles has at least
\* two distinct member cables; every nucleation took two different cables
\* and every agglomeration took its donor among the bundles created before.
C16_AtLeastTwoMembers ==
    IsInstance(zt) =>
        /\ \A b \in 0..(zt.num_bundles - 1) :
              Cardinality(Members(zt, b)) >= 2
        /\ \A k \in 1..Len(zt.printed) :
              LET l == zt.printed[k]
              IN  IF l[1] = "added with cables"
                  THEN l[3] # l[4]
                  ELSE l[3] >= 0 /\ l[3] < l[2] - 1

C16_Witness ==
    /\ IsInstance(zt)
    /\ last_call.op = "step"
    /\ zt.num_bundles = 3
    /\ zt.num_bundles <= zt.max_num_bundles
    /\ \E k \in 1..Len(zt.printed) :
          zt.printed[k][1] = "added: bundle and cable"
    /\ \E b \in 0..(zt.num_bundles - 1) :
          Cardinality(Members(zt, b)) = 2

\* C17: the logical entries never hold the same (bundle, cable) pair twice;
\* the cable an agglomeration absorbed was not a member of its donor, so the
\* new bundle has exactly one member more than the donor.
C17_NoDuplicatePairs ==
    IsInstance(zt) =>
        /\ \A i, j \in Entries(zt) :
              i # j => <<zt.bundle_map_rows[i], zt.bundle_map_cols[i]>>
                         # <<zt.bundle_map_rows[j], zt.bundle_map_cols[j]>>
        /\ \A k \in 1..Len(zt.printed) :
              LET l == zt.printed[k]
              IN  l[1] = "added: bundle and cable"
                    => /\ l[4] \notin Members(zt, l[3])
                       /\ Cardinality(Members(zt, l[2] - 1))
                            = Cardinality(Members(zt, l[3])) + 1

\* A bundle and its member cables are active together, the masked entries
\* are zero, and an agglomeration has taken place.
C17_Witness ==
    /\ IsInstance(zt)
    /\ last_call.op = "step"
    /\ zt.num_bundles <= zt.max_num_bundles
    /\ \E k \in 1..Len(zt.printed) :
          zt.printed[k][1] = "added: bundle and cable"
    /\ \E i \in Entries(zt) :
          /\ zt.bundle_activities[zt.bundle_map_rows[i]] > 0
          /\ zt.nonbundle_activities[zt.bundle_map_cols[i]] > 0
          /\ zt.agglomeration_energy[<<zt.bundle_map_rows[i],
                                       zt.bundle_map_cols[i]>>] = 0

\* C18: at the end of a step() in which agglomeration fired for donor d
\* and cable c, row d and column c of agglomeration_energy are zero and so
\* are row c and column c of nucleation_energy.
C18_AgglomerationReset ==
    [][IsInstance(zt) /\ IsInstance(zt')
          => \A l \in Agglomerations(zt, zt') :
                /\ \A p \in DOMAIN zt'.agglomeration_energy :
                      p[1] = l[3] \/ p[2] = l[4]
                          => zt'.agglomeration_energy[p] = 0
                /\ \A p \in DOMAIN zt'.nucleation_energy :
                      p[1] = l[4] \/ p[2] = l[4]
                          => zt'.nucleation_energy[p] = 0]_vars

\* An agglomeration has just fired while a cable outside the new bundle was
\* active as well, and energy is left outside the rows and columns reset.
C18_Witness ==
    /\ JustCreated(zt, "added: bundle and cable")
    /\ last_call.op = "step"
    /\ \E c \in 0..(zt.max_num_cables - 1) :
          /\ c \notin Members(zt, zt.num_bundles - 1)
          /\ zt.nonbundle_activities[c] > 0
    /\ \E p \in DOMAIN zt.agglomeration_energy :
          zt.agglomeration_energy[p] > 0
    /\ \E p \in DOMAIN zt.nucleation_energy : zt.nucleation_energy[p] > 0

\* C19 (as stated): at the end of a step() in which nucleation fired for
\* cables a and b, the rows and columns a and b of nucleation_energy are
\* zero and the columns a and b of agglomeration_energy are zero.
C19_NucleationResetAtStepEnd ==
    [][IsInstance(zt) /\ IsInstance(zt')
          => \A l \in Nucleations(zt, zt') :
                /\ \A p \in DOMAIN zt'.nucleation_energy :
                      p[1] \in {l[3], l[4]} \/ p[2] \in {l[3], l[4]}
                          => zt'.nucleation_energy[p] = 0
                /\ \A p \in DOMAIN zt'.agglomeration_energy :
                      p[2] \in {l[3], l[4]}
                          => zt'.agglomeration_energy[p] = 0]_vars

\* C19 (amended): at the end of such a step the rows and columns a and b of
\* nucleation_energy are zero, and each entry of the columns a and b of
\* agglomeration_energy is zero or holds only what the accumulation of this
\* same step added, bundle_activities[r] * nonbundle_activities[c].
C19_NucleationResetThenAccumulate ==
    [][IsInstance(zt) /\ IsInstance(zt')
          => \A l \in Nucleations(zt, zt') :
                /\ \A p \in DOMAIN zt'.nucleation_energy :
                      p[1] \in {l[3], l[4]} \/ p[2] \in {l[3], l[4]}
                          => zt'.nucleation_energy[p] = 0
                /\ \A p \in DOMAIN zt'.agglomeration_energy :
                      p[2] \in {l[3], l[4]}
                          => zt'.agglomeration_energy[p]
                               \in {0, zt'.bundle_activities[p[1]]
                                          * zt'.nonbundle_activities[p[2]]}]_vars

\* A nucleation has just fired for a cable that is active together with an
\* older bundle it is not a member of: its agglomeration column is not zero.
C19_Witness ==
    /\ JustCreated(zt, "added with cables")
    /\ last_call.op = "step"
    /\ LET l == zt.printed[Len(zt.printed)]
       IN  \E r \in 0..(zt.num_bundles - 2) :
              \E c \in {l[3], l[4]} :
                 /\ c \notin Members(zt, r)
                 /\ zt.agglomeration_energy[<<r, c>>] > 0

\* C20: for a bundle n created by agglomeration from donor d, the activity
\* step() returns for n is at most the activity it returns for d, in the
\* step that created n and in every later one.
C20_SupersetNotMoreActive ==
    IsInstance(zt) =>
        \A k \in 1..Len(zt.printed) :
            LET l == zt.printed[k]
            IN  l[1] = "added: bundle and cable"
                /\ (l[2] - 1) \in DOMAIN zt.bundle_activities
                    => zt.bundle_activities[l[2] - 1]
                         <= zt.bundle_activities[l[3]]

\* In a step after the agglomeration the donor is active and the absorbed
\* cable is not, so the new bundle is strictly less active than the donor.
C20_Witness ==
    /\ IsInstance(zt)
    /\ last_call.op = "step"
    /\ ~last_call.raised
    /\ zt.num_bundles <= zt.max_num_bundles
    /\ \E k \in 1..Len(zt.printed) :
          LET l == zt.printed[k]
          IN  /\ l[1] = "added: bundle and cable"
              /\ zt.cable_activities[l[4]] = 0
              /\ zt.bundle_activities[l[3]] > 0
              /\ zt.bundle_activities[l[2] - 1] = 0
              /\ last_call.result[l[3] + 1] > last_call.result[l[2]]

\* C21: after every append to the bundle map, those inside the copy loop
\* of an agglomeration included, n_map_entries is below bundle_map_size,
\* bundle_map_size is 8 times a power of two and both index arrays have
\* that length; every write at n_map_entries was inside the arrays, and a
\* doubling left the earlier entries in place.
C21_AppendsWithinBuffers ==
    /\ [](IsInstance(zt) =>
            /\ zt.appends_kept_bounds
            /\ zt.n_map_entries < zt.bundle_map_size
            /\ IsMapSize(zt.bundle_map_size)
            /\ DOMAIN zt.bundle_map_rows = 0..(zt.bundle_map_size - 1)
            /\ DOMAIN zt.bundle_map_cols = 0..(zt.bundle_map_size - 1))
    /\ [][IsInstance(zt) /\ IsInstance(zt') /\ last_call'.op # "new"
             => \A i \in Entries(zt) :
                   /\ zt'.bundle_map_rows[i] = zt.bundle_map_rows[i]
                   /\ zt'.bundle_map_cols[i] = zt.bundle_map_cols[i]]_vars

\* The buffers were doubled by the first write of a copy loop, which began
\* at entry 7 of 8, and the loop went on writing into the new buffers.
C21_Witness ==
    /\ JustCreated(zt, "added: bundle and cable")
    /\ last_call.op = "step"
    /\ zt.bundle_map_size = 2 * InitialMapSize
    /\ zt.n_map_entries = InitialMapSize + 2
    /\ Cardinality(Members(zt, zt.num_bundles - 1)) = 3
    /\ \A i \in Entries(zt) : zt.bundle_map_rows[i] >= 0

====
